---- MODULE Spec2Model ----
(***************************************************************************)
(* Model of states/azure/resource/azurearm_resource.py: the two state      *)
(* functions resource_group_present and resource_group_absent, run one     *)
(* after the other against one subscription (the map `live`) through the   *)
(* execution-module client (__salt__['azurearm_resource.*']).              *)
(*                                                                         *)
(* Python values: a dict is a TLA+ function whose domain lacks "py"; None, *)
(* True/False and a str that may stand where None may stand are records    *)
(* tagged with "py".  A formatted comment is the tuple of its pieces.      *)
(***************************************************************************)
EXTENDS Integers, Sequences, FiniteSets, TLC

VARIABLES
    live,    \* the subscription: name -> resource group record, or None
    dryRun,  \* __opts__['test'], process-wide and only read here
    args,    \* the arguments of the latest invocation
    ret,     \* the dict the latest invocation returned
    calls    \* the client calls the latest invocation issued, in order

vars == <<live, dryRun, args, ret, calls>>

-----------------------------------------------------------------------------
(* Bounds and input domains *)

NumTagVals == 2

AllTagVals == <<"1", "2", "3">>

TagKeys == {"a", "b"}

TagVals == {AllTagVals[i] : i \in 1..NumTagVals}

Names == {"foo"}

Locations == {"eastus", "westus"}

None == [py |-> "None"]

True == [py |-> "bool", v |-> TRUE]

False == [py |-> "bool", v |-> FALSE]

Str(s) == [py |-> "str", v |-> s]

EmptyDict == <<>>

TagDicts == UNION {[ks -> TagVals] : ks \in SUBSET TagKeys}

TagInputs == TagDicts \cup {None}

ManagedBys == {None, Str("vm1")}

AuthDicts == {[subscription_id |-> "sub1"]}

Auths == AuthDicts \cup {None, Str("profile")}

CloudError == "CloudError"

CreateOutcomes == {"ok", "error"}

DeleteOutcomes == {"ok", "error", "error_gone"}

LiveGroups == [location : Locations, managed_by : ManagedBys, tags : TagDicts]

-----------------------------------------------------------------------------
(* Python helpers *)

isinstance_dict_notnone(x) == x # None

isinstance_dict(x) == "py" \notin DOMAIN x

Truthy(x) == IF isinstance_dict(x) THEN DOMAIN x # {} ELSE x \notin {None, False}

DictGet(d, k, default) == IF k \in DOMAIN d THEN d[k] ELSE default

FormatGet(d, k) == IF k \in DOMAIN d THEN d[k] ELSE "None"

Restrict(d, ks) == [k \in ks |-> d[k]]

(* dictdiffer.deep_diff on flat mappings: the keys whose values agree are   *)
(* dropped from both sides, and a side is reported only when it is left     *)
(* non-empty.                                                               *)
deep_diff(old, new) ==
    LET same == {k \in DOMAIN old \cap DOMAIN new : old[k] = new[k]}
        o == Restrict(old, DOMAIN old \ same)
        n == Restrict(new, DOMAIN new \ same)
        ks == (IF DOMAIN o # {} THEN {"old"} ELSE {}) \cup
              (IF DOMAIN n # {} THEN {"new"} ELSE {})
    IN [k \in ks |-> IF k = "old" THEN o ELSE n]

-----------------------------------------------------------------------------
(* The resource group client (execution module), acting on a subscription l *)

resource_group_check_existence(l, name) == l[name] # None

resource_group_get(l, name) ==
    LET g == l[name]
        ks == {"name", "location"} \cup
              (IF g.managed_by # None THEN {"managed_by"} ELSE {}) \cup
              (IF g.tags # EmptyDict THEN {"tags"} ELSE {})
    IN [k \in ks |-> IF k = "name" THEN name ELSE g[k]]

(* create_or_update: on success a missing group is created as given; an     *)
(* existing group keeps its location and managed_by and gets the tags.      *)
(* On a CloudError nothing changes and the result is an error payload.      *)
resource_group_create_or_update(l, name, location, managed_by, tags, cu) ==
    IF cu = "error"
    THEN [live |-> l, group |-> [error |-> CloudError]]
    ELSE LET t == IF Truthy(tags) THEN tags ELSE EmptyDict
             g == IF l[name] = None
                  THEN [location |-> location, managed_by |-> managed_by, tags |-> t]
                  ELSE [l[name] EXCEPT !.tags = t]
             l2 == [l EXCEPT ![name] = g]
         IN [live |-> l2, group |-> resource_group_get(l2, name)]

(* delete: True when the deletion completed; False on a CloudError, which   *)
(* may leave the group in place or be raised although the group went away.  *)
resource_group_delete(l, name, del) ==
    [live |-> IF del = "error" THEN l ELSE [l EXCEPT ![name] = None],
     deleted |-> (del = "ok")]

ExistsCall(name, res) ==
    [fn |-> "resource_group_check_existence", name |-> name, res |-> res]

GetCall(name) == [fn |-> "resource_group_get", name |-> name]

CreateCall(name, location, managed_by, tags, res) ==
    [fn |-> "resource_group_create_or_update", name |-> name, location |-> location,
     managed_by |-> managed_by, tags |-> tags, res |-> res]

DeleteCall(name, res) == [fn |-> "resource_group_delete", name |-> name, res |-> res]

-----------------------------------------------------------------------------
(* resource_group_present *)

opts_test == dryRun

ret_init(name) == [name |-> name, result |-> False, comment |-> <<>>, changes |-> EmptyDict]

invalid_auth(name) ==
    [ret_init(name) EXCEPT !.comment =
        <<"Connection information must be specified via connection_auth dictionary!">>]

desired_tags_raw(tags) == tags

desired_tags(tags) == IF Truthy(tags) THEN tags ELSE EmptyDict

tag_changes_whole(group, tags) == deep_diff(group, desired_tags(tags))

tag_changes(group, tags) == deep_diff(DictGet(group, "tags", EmptyDict), desired_tags(tags))

call_create_or_update_notags(l, name, location, managed_by, tags, cu) ==
    LET r == resource_group_create_or_update(l, name, location, managed_by, None, cu)
    IN [live |-> r.live, group |-> r.group,
        call |-> CreateCall(name, location, managed_by, None, r.group)]

call_create_or_update(l, name, location, managed_by, tags, cu) ==
    LET r == resource_group_create_or_update(l, name, location, managed_by, tags, cu)
    IN [live |-> r.live, group |-> r.group,
        call |-> CreateCall(name, location, managed_by, tags, r.group)]

present_mutate(l, ret0, calls0, name, location, managed_by, tags, cu) ==
    LET c == call_create_or_update(l, name, location, managed_by, tags, cu)
        present == resource_group_check_existence(c.live, name)
        calls2 == calls0 \o <<c.call, ExistsCall(name, present)>>
    IN IF present
       THEN [ret |-> [ret0 EXCEPT
                        !.result = True,
                        !.comment = <<"Resource group ", name, " has been created.">>,
                        !.changes = [old |-> EmptyDict, new |-> c.group]],
             calls |-> calls2, live |-> c.live]
       ELSE [ret |-> [ret0 EXCEPT
                        !.comment = <<"Failed to create resource group ", name, "! (",
                                      FormatGet(c.group, "error"), ")">>],
             calls |-> calls2, live |-> c.live]

present_existing_notest(l, calls0, name, location, managed_by, tags, cu) ==
    LET group == resource_group_get(l, name)
        changes == tag_changes(group, tags)
        calls1 == calls0 \o <<GetCall(name)>>
    IN IF ~Truthy(changes)
       THEN [ret |-> [ret_init(name) EXCEPT
                        !.result = True,
                        !.comment = <<"Resource group ", name, " is already present.">>],
             calls |-> calls1, live |-> l]
       ELSE present_mutate(l, [ret_init(name) EXCEPT !.changes = changes], calls1,
                           name, location, managed_by, tags, cu)

present_existing(l, calls0, name, location, managed_by, tags, cu) ==
    LET group == resource_group_get(l, name)
        changes == tag_changes(group, tags)
        calls1 == calls0 \o <<GetCall(name)>>
    IN IF ~Truthy(changes)
       THEN [ret |-> [ret_init(name) EXCEPT
                        !.result = True,
                        !.comment = <<"Resource group ", name, " is already present.">>],
             calls |-> calls1, live |-> l]
       ELSE IF opts_test
       THEN [ret |-> [ret_init(name) EXCEPT
                        !.result = None,
                        !.comment = <<"Resource group ", name, " tags would be updated.">>,
                        !.changes = [old |-> DictGet(group, "tags", EmptyDict),
                                     new |-> tags]],
             calls |-> calls1, live |-> l]
       ELSE present_mutate(l, [ret_init(name) EXCEPT !.changes = changes], calls1,
                           name, location, managed_by, tags, cu)

present_missing(l, calls0, name, location, managed_by, tags, cu) ==
    IF opts_test
    THEN [ret |-> [ret_init(name) EXCEPT
                     !.result = None,
                     !.comment = <<"Resource group ", name, " would be created.">>,
                     !.changes = [old |-> EmptyDict,
                                  new |-> [name |-> name, location |-> location,
                                           managed_by |-> managed_by, tags |-> tags]]],
          calls |-> calls0, live |-> l]
    ELSE present_mutate(l, ret_init(name), calls0, name, location, managed_by, tags, cu)

resource_group_present(l, name, location, managed_by, tags, connection_auth, cu) ==
    IF ~isinstance_dict(connection_auth)
    THEN [ret |-> invalid_auth(name), calls |-> <<>>, live |-> l]
    ELSE LET present == resource_group_check_existence(l, name)
             calls0 == <<ExistsCall(name, present)>>
         IN IF present
            THEN present_existing(l, calls0, name, location, managed_by, tags, cu)
            ELSE present_missing(l, calls0, name, location, managed_by, tags, cu)

-----------------------------------------------------------------------------
(* resource_group_absent *)

absent_verify_trusting(l, name, deleted) == [present |-> ~deleted, calls |-> <<>>]

absent_verify(l, name, deleted) ==
    IF deleted
    THEN [present |-> FALSE, calls |-> <<>>]
    ELSE LET present == resource_group_check_existence(l, name)
         IN [present |-> present, calls |-> <<ExistsCall(name, present)>>]

absent_delete_inverted(l, calls0, name, del) ==
    LET group == resource_group_get(l, name)
        d == resource_group_delete(l, name, del)
        v == absent_verify(d.live, name, d.deleted)
        calls2 == calls0 \o <<GetCall(name), DeleteCall(name, d.deleted)>> \o v.calls
    IN IF v.present
       THEN [ret |-> [ret_init(name) EXCEPT
                        !.result = True,
                        !.comment = <<"Resource group ", name, " has been deleted.">>,
                        !.changes = [old |-> group, new |-> EmptyDict]],
             calls |-> calls2, live |-> d.live]
       ELSE [ret |-> [ret_init(name) EXCEPT
                        !.comment = <<"Failed to delete resource group ", name, "!">>],
             calls |-> calls2, live |-> d.live]

absent_delete(l, calls0, name, del) ==
    LET group == resource_group_get(l, name)
        d == resource_group_delete(l, name, del)
        v == absent_verify(d.live, name, d.deleted)
        calls2 == calls0 \o <<GetCall(name), DeleteCall(name, d.deleted)>> \o v.calls
    IN IF ~v.present
       THEN [ret |-> [ret_init(name) EXCEPT
                        !.result = True,
                        !.comment = <<"Resource group ", name, " has been deleted.">>,
                        !.changes = [old |-> group, new |-> EmptyDict]],
             calls |-> calls2, live |-> d.live]
       ELSE [ret |-> [ret_init(name) EXCEPT
                        !.comment = <<"Failed to delete resource group ", name, "!">>],
             calls |-> calls2, live |-> d.live]

absent_would_delete(l, calls0, name) ==
    LET group == resource_group_get(l, name)
    IN [ret |-> [ret_init(name) EXCEPT
                   !.result = None,
                   !.comment = <<"Resource group ", name, " would be deleted.">>,
                   !.changes = [old |-> group, new |-> EmptyDict]],
        calls |-> calls0 \o <<GetCall(name)>>, live |-> l]

already_absent(l, calls0, name) ==
    [ret |-> [ret_init(name) EXCEPT
                !.result = True,
                !.comment = <<"Resource group ", name, " is already absent.">>],
     calls |-> calls0, live |-> l]

resource_group_absent_testfirst(l, name, connection_auth, del) ==
    IF ~isinstance_dict(connection_auth)
    THEN [ret |-> invalid_auth(name), calls |-> <<>>, live |-> l]
    ELSE LET present == resource_group_check_existence(l, name)
             calls0 == <<ExistsCall(name, present)>>
         IN IF opts_test
            THEN [ret |-> [ret_init(name) EXCEPT
                             !.result = None,
                             !.comment = <<"Resource group ", name, " would be deleted.">>],
                  calls |-> calls0, live |-> l]
            ELSE IF ~present
            THEN already_absent(l, calls0, name)
            ELSE absent_delete(l, calls0, name, del)

resource_group_absent(l, name, connection_auth, del) ==
    IF ~isinstance_dict(connection_auth)
    THEN [ret |-> invalid_auth(name), calls |-> <<>>, live |-> l]
    ELSE LET present == resource_group_check_existence(l, name)
             calls0 == <<ExistsCall(name, present)>>
         IN IF ~present
            THEN already_absent(l, calls0, name)
            ELSE IF opts_test
            THEN absent_would_delete(l, calls0, name)
            ELSE absent_delete(l, calls0, name, del)

-----------------------------------------------------------------------------
(* The state machine: a sequence of state-function invocations *)

Init ==
    /\ live \in [Names -> LiveGroups \cup {None}]
    /\ dryRun \in BOOLEAN
    /\ args = [op |-> "none"]
    /\ ret = None
    /\ calls = <<>>

Present ==
    \E name \in Names, location \in Locations, managed_by \in ManagedBys,
       tags \in TagInputs, connection_auth \in Auths, cu \in CreateOutcomes :
        LET r == resource_group_present(live, name, location, managed_by, tags,
                                        connection_auth, cu)
        IN /\ live' = r.live
           /\ ret' = r.ret
           /\ calls' = r.calls
           /\ args' = [op |-> "resource_group_present", name |-> name,
                       location |-> location, managed_by |-> managed_by,
                       tags |-> tags, connection_auth |-> connection_auth]
           /\ UNCHANGED dryRun

Absent ==
    \E name \in Names, connection_auth \in Auths, del \in DeleteOutcomes :
        LET r == resource_group_absent(live, name, connection_auth, del)
        IN /\ live' = r.live
           /\ ret' = r.ret
           /\ calls' = r.calls
           /\ args' = [op |-> "resource_group_absent", name |-> name,
                       connection_auth |-> connection_auth]
           /\ UNCHANGED dryRun

Next == Present \/ Absent

Spec == Init /\ [][Next]_vars

-----------------------------------------------------------------------------
(* Vocabulary of the properties *)

Invoked == args.op # "none"

IsPresentOp(a) == a.op = "resource_group_present"

IsAbsentOp(a) == a.op = "resource_group_absent"

ValidAuth(a) == a.connection_auth \in AuthDicts

IsCreate(c) == c.fn = "resource_group_create_or_update"

IsDelete(c) == c.fn = "resource_group_delete"

IsExists(c) == c.fn = "resource_group_check_existence"

MutatingCalls(cs) == {i \in DOMAIN cs : IsCreate(cs[i]) \/ IsDelete(cs[i])}

FailedCall(c) ==
    \/ IsCreate(c) /\ "error" \in DOMAIN c.res
    \/ IsDelete(c) /\ c.res = FALSE

ClientOk(cs) == \A i \in DOMAIN cs : ~FailedCall(cs[i])

FollowedByExists(cs, i) == i < Len(cs) /\ IsExists(cs[i + 1])

Pieces(comment) == {comment[i] : i \in DOMAIN comment}

TagsWanted(a) == IF a.tags = None THEN EmptyDict ELSE a.tags

-----------------------------------------------------------------------------
(* C1: with the dry-run flag set, no invocation of either state function   *)
(* issues a create_or_update or delete call, and the live state is left as *)
(* it was.                                                                 *)
C1_DryRunNeverMutates ==
    [][dryRun => (live' = live /\ MutatingCalls(calls') = {})]_vars

C1_Witness ==
    /\ Invoked /\ dryRun /\ ValidAuth(args)
    /\ ret.result = None
    /\ live[args.name] # None

(* C2 (as claimed): whenever resource_group_present returns result=True    *)
(* with dry-run off, the group exists and its live tags equal the desired  *)
(* tags.                                                                   *)
C2_SuccessMeansTagsMatch ==
    (Invoked /\ IsPresentOp(args) /\ ~dryRun /\ ret.result = True)
        => /\ live[args.name] # None
           /\ live[args.name].tags = TagsWanted(args)

(* C3: with dry-run off and a client whose calls succeed, a second         *)
(* resource_group_present with the same arguments returns result=True with *)
(* empty changes and issues no create_or_update, tags=None included.       *)
C3_SecondPresentIsNoOp ==
    [][(/\ IsPresentOp(args) /\ ValidAuth(args) /\ ~dryRun /\ ClientOk(calls)
        /\ args' = args /\ ClientOk(calls'))
       => (/\ ret'.result = True
           /\ ret'.changes = EmptyDict
           /\ MutatingCalls(calls') = {})]_vars

C3_Witness ==
    /\ Invoked /\ IsPresentOp(args) /\ ValidAuth(args) /\ ~dryRun
    /\ args.tags = None
    /\ ret.comment = <<"Resource group ", args.name, " is already present.">>
    /\ MutatingCalls(calls) = {}

(* C4 (as claimed): whenever a mutating client call fails or returns an    *)
(* error payload, the invocation returns result=False with a comment that  *)
(* embeds the client's error detail, and at most one mutating call is made.*)
C4_FailedMutationReported ==
    (Invoked /\ \E i \in DOMAIN calls : FailedCall(calls[i]))
        => /\ ret.result = False
           /\ CloudError \in Pieces(ret.comment)
           /\ Cardinality(MutatingCalls(calls)) <= 1

(* C5: when connection_auth is None or not a mapping, either state         *)
(* function returns result=False with the fixed comment and empty changes  *)
(* and makes no client call at all, whatever the dry-run flag and the live *)
(* state.                                                                  *)
C5_InvalidAuthRejected ==
    (Invoked /\ args.connection_auth \in {None, Str("profile")})
        => /\ ret = [name |-> args.name, result |-> False,
                     comment |-> <<"Connection information must be specified via connection_auth dictionary!">>,
                     changes |-> EmptyDict]
           /\ calls = <<>>

C5_Witness ==
    /\ Invoked /\ args.connection_auth = Str("profile")
    /\ live[args.name] # None
    /\ ret.result = False /\ calls = <<>>

(* C6: with dry-run off and a client whose calls succeed, a                *)
(* resource_group_absent of the same name right after a                    *)
(* resource_group_present returns result=True and leaves no such group.    *)
C6_AbsentAfterPresent ==
    [][(/\ IsPresentOp(args) /\ ValidAuth(args) /\ ~dryRun /\ ClientOk(calls)
        /\ IsAbsentOp(args') /\ args'.name = args.name /\ ValidAuth(args')
        /\ ClientOk(calls'))
       => (/\ live'[args'.name] = None
           /\ ~resource_group_check_existence(live', args'.name)
           /\ ret'.result = True)]_vars

C6_Witness ==
    /\ Invoked /\ IsAbsentOp(args) /\ ValidAuth(args) /\ ~dryRun
    /\ ret.comment = <<"Resource group ", args.name, " has been deleted.">>
    /\ ClientOk(calls)
    /\ live[args.name] = None

(* C7 (as claimed): every invocation issues at most one mutating call and  *)
(* every mutating call, delete included whatever it returned, is followed  *)
(* by a check_existence read.                                              *)
C7_EveryMutationVerified ==
    /\ Cardinality(MutatingCalls(calls)) <= 1
    /\ \A i \in MutatingCalls(calls) : FollowedByExists(calls, i)

(* C7 (amended): every invocation issues at most one mutating call; every  *)
(* create_or_update is followed by a check_existence read; a delete is     *)
(* followed by a check_existence read exactly when it returned False.      *)
C7_MutationVerifiedUnlessDeleteTrue ==
    /\ Cardinality(MutatingCalls(calls)) <= 1
    /\ \A i \in MutatingCalls(calls) :
        /\ IsCreate(calls[i]) => FollowedByExists(calls, i)
        /\ IsDelete(calls[i]) => (FollowedByExists(calls, i) <=> (calls[i].res = FALSE))

C7_Witness ==
    /\ Invoked /\ IsAbsentOp(args)
    /\ Len(calls) = 4
    /\ IsDelete(calls[3]) /\ calls[3].res = FALSE
    /\ IsExists(calls[4])

(* C8: resource_group_absent on a name that does not exist makes the one   *)
(* check_existence read and nothing else (no get, no delete), leaves the   *)
(* live state as it was and returns result=True with the comment           *)
(* "Resource group <name> is already absent." and empty changes, dry-run   *)
(* or not.                                                                 *)
C8_AbsentOnMissingIsNoOp ==
    [][(IsAbsentOp(args') /\ ValidAuth(args') /\ live[args'.name] = None)
       => (/\ live' = live
           /\ calls' = <<ExistsCall(args'.name, FALSE)>>
           /\ ret' = [name |-> args'.name, result |-> True,
                      comment |-> <<"Resource group ", args'.name, " is already absent.">>,
                      changes |-> EmptyDict])]_vars

C8_Witness ==
    /\ Invoked /\ IsAbsentOp(args) /\ ValidAuth(args) /\ dryRun
    /\ calls = <<ExistsCall(args.name, FALSE)>>
    /\ ret.result = True

(* C9: on an existing group resource_group_present mutates exactly when    *)
(* dry-run is off and the live tags differ from the desired tags, whatever *)
(* the desired location and managed_by, and the group's live location and  *)
(* managed_by stay as they were.                                           *)
C9_OnlyTagsDrift ==
    [][(IsPresentOp(args') /\ ValidAuth(args') /\ live[args'.name] # None)
       => LET n == args'.name
          IN /\ (MutatingCalls(calls') # {})
                   <=> (~dryRun /\ live[n].tags # TagsWanted(args'))
             /\ (live[n].tags = TagsWanted(args')) => (ret'.result = True /\ live' = live)
             /\ live'[n] # None
             /\ live'[n].location = live[n].location
             /\ live'[n].managed_by = live[n].managed_by]_vars

C9_Witness ==
    /\ Invoked /\ IsPresentOp(args) /\ ValidAuth(args)
    /\ live[args.name] # None
    /\ live[args.name].location # args.location
    /\ live[args.name].managed_by # args.managed_by
    /\ live[args.name].tags = TagsWanted(args)
    /\ ret.result = True
    /\ MutatingCalls(calls) = {}

(* C10: with dry-run off, resource_group_present on an existing group      *)
(* whose live tags differ from the desired tags issues exactly one         *)
(* create_or_update, carrying the tags argument; with equal tags it issues *)
(* none.                                                                   *)
C10_DriftGivesOneUpdate ==
    [][(IsPresentOp(args') /\ ValidAuth(args') /\ ~dryRun /\ live[args'.name] # None)
       => IF live[args'.name].tags # TagsWanted(args')
          THEN /\ Cardinality(MutatingCalls(calls')) = 1
               /\ \A i \in MutatingCalls(calls') :
                    /\ IsCreate(calls'[i])
                    /\ calls'[i].name = args'.name
                    /\ calls'[i].tags = args'.tags
          ELSE MutatingCalls(calls') = {}]_vars

C10_Witness ==
    /\ Invoked /\ IsPresentOp(args) /\ ~dryRun
    /\ Len(calls) = 4
    /\ calls[2] = GetCall(args.name)
    /\ IsCreate(calls[3])
    /\ calls[3].tags = [a |-> "1", b |-> "2"]
    /\ live[args.name] # None
    /\ live[args.name].tags = [a |-> "1", b |-> "2"]

====
